---- MODULE Spec2Model ----
(***************************************************************************)
(* NodeVisualizer (pylabrobot/visualizer/node_visualizer.py): event-driven *)
(* capture of resource-tree snapshots into numbered frame files, and the   *)
(* rendering of the frame directory by the node script render.js.          *)
(*                                                                         *)
(* Coroutines run on one asyncio event loop: a coroutine keeps the loop    *)
(* until it reaches an await that really suspends.  `running` is the       *)
(* coroutine that holds the loop, NoProc when the loop is free.            *)
(***************************************************************************)
EXTENDS Integers, Sequences, FiniteSets, TLC

VARIABLES
  frame_count,   \* self.frame_count
  files,         \* the files of self.output_dir: file name -> content
  tree,          \* the mutable state of the root resource tree (external)
  callbacks,     \* the callbacks registered on the root resource
  pc,            \* position of each coroutine
  path,          \* frame_path of the capture a coroutine is in
  snap,          \* state (the snapshot) of the capture a coroutine is in
  err,           \* the exception that last propagated out of the visualizer
  running,       \* the coroutine holding the event loop
  history,       \* log of the events fired, in firing order
  cur,           \* each coroutine's entry in history
  render,        \* what the last run of render.js did
  base_stopped,  \* Visualizer.stop() of the base class has run
  cmp,           \* two frame names and the order render.js lists them in
  layout,        \* the parent-relative location of each resource of the tree
  shots,         \* the snapshots returned by successive _get_current_state() calls
  scene,         \* the parsed frame file handed to renderFrame
  drawn,         \* the operations renderFrame did on the canvas and the encoder
  paths          \* the configured paths and the files they were resolved to

vars == <<frame_count, files, tree, callbacks, pc, path, snap, err, running,
          history, cur, render, base_stopped, cmp, layout, shots, scene, drawn, paths>>

----------------------------------------------------------------------------
(* Bounds of the model *)

MaxEvents == 3      \* events fired, whatever the outcome of their capture
NumTasks == 2       \* protocol coroutines firing events

(* Program constants *)

PadWidth == 4       \* f"{self.frame_count:04d}"

Main == 0
Tasks == 1..NumTasks
Procs == {Main} \cup Tasks
NoProc == -1

----------------------------------------------------------------------------
(* The resource tree.  The structure is fixed; tip presence and the well's *)
(* liquids are what the protocol runtime changes between events.           *)

Nodes == 1..5
Root == 1

ResourceName(n) ==
  CASE n = 1 -> "deck" [] n = 2 -> "tip_rack1" [] n = 3 -> "tip_spot"
    [] n = 4 -> "plate1" [] n = 5 -> "well"

ResourceType(n) ==
  CASE n = 1 -> "STARLetDeck" [] n = 2 -> "TipRack" [] n = 3 -> "TipSpot"
    [] n = 4 -> "Plate" [] n = 5 -> "Well"

Children(n) ==
  CASE n = 1 -> <<2, 4>> [] n = 2 -> <<3>> [] n = 3 -> <<>>
    [] n = 4 -> <<5>> [] n = 5 -> <<>>

Parent(n) ==
  CASE n = 1 -> 0 [] n = 2 -> 1 [] n = 3 -> 2 [] n = 4 -> 1 [] n = 5 -> 4

\* parent-relative location of each resource on the deck of the protocol
Offset(n) ==
  CASE n = 1 -> [x |-> 0, y |-> 0, z |-> 0]
    [] n = 2 -> [x |-> 10, y |-> 5, z |-> 1]
    [] n = 3 -> [x |-> 2, y |-> 3, z |-> 4]
    [] n = 4 -> [x |-> 40, y |-> 5, z |-> 1]
    [] n = 5 -> [x |-> 1, y |-> 2, z |-> 3]

Size(n) ==
  CASE n = 1 -> [x |-> 100, y |-> 60, z |-> 10]
    [] n = 2 -> [x |-> 20, y |-> 30, z |-> 5]
    [] n = 3 -> [x |-> 2, y |-> 2, z |-> 2]
    [] n = 4 -> [x |-> 20, y |-> 30, z |-> 5]
    [] n = 5 -> [x |-> 3, y |-> 3, z |-> 3]

\* The states the protocol runtime puts the tree in: before and after a
\* liquid-handling operation.
InitialTree == [has_tip |-> TRUE, liquids |-> <<>>]
UsedTree ==
  [has_tip |-> FALSE, liquids |-> << <<"Compound A", 30>>, <<"Compound B", 70>> >>]

\* The tree as the protocol runtime leaves it when it fires an event: an
\* operation changes tips and liquids, the other events leave them alone.
TreeAfter(kind, t) ==
  IF kind = "operation" THEN (IF t = InitialTree THEN UsedTree ELSE InitialTree) ELSE t

\* Resource.get_absolute_location(): the sum of the offsets from the root.
RECURSIVE get_absolute_location(_)
get_absolute_location(n) ==
  IF Parent(n) = 0 THEN layout[n]
  ELSE LET p == get_absolute_location(Parent(n))
       IN [x |-> p.x + layout[n].x, y |-> p.y + layout[n].y, z |-> p.z + layout[n].z]

\* Resource.serialize_state(): the type-keyed state of a resource.
serialize_state(n, t) ==
  CASE ResourceType(n) = "TipSpot" ->
         [kind |-> "tip", has_tip |-> t.has_tip, liquids |-> <<>>, max_volume |-> 0]
    [] ResourceType(n) = "Well" ->
         [kind |-> "liquids", has_tip |-> FALSE, liquids |-> t.liquids, max_volume |-> 360]
    [] OTHER -> [kind |-> "none", has_tip |-> FALSE, liquids |-> <<>>, max_volume |-> 0]

RECURSIVE serialize_resource(_, _)

\* as serialize_resource, had it recorded resource.location (parent-relative)
serialize_resource_relative(n, t) ==
  [ name     |-> ResourceName(n),
    type     |-> ResourceType(n),
    location |-> layout[n],
    size_x   |-> Size(n).x,
    size_y   |-> Size(n).y,
    size_z   |-> Size(n).z,
    state    |-> serialize_state(n, t),
    children |-> [i \in 1..Len(Children(n)) |-> serialize_resource(Children(n)[i], t)] ]

\* as serialize_resource, had it listed the children last to first
serialize_resource_reversed(n, t) ==
  [ name     |-> ResourceName(n),
    type     |-> ResourceType(n),
    location |-> get_absolute_location(n),
    size_x   |-> Size(n).x,
    size_y   |-> Size(n).y,
    size_z   |-> Size(n).z,
    state    |-> serialize_state(n, t),
    children |-> [i \in 1..Len(Children(n)) |->
                   serialize_resource(Children(n)[Len(Children(n)) + 1 - i], t)] ]

\* serialize_resource(resource) of _get_current_state
serialize_resource(n, t) ==
  [ name     |-> ResourceName(n),
    type     |-> ResourceType(n),
    location |-> get_absolute_location(n),
    size_x   |-> Size(n).x,
    size_y   |-> Size(n).y,
    size_z   |-> Size(n).z,
    state    |-> serialize_state(n, t),
    children |-> [i \in 1..Len(Children(n)) |-> serialize_resource(Children(n)[i], t)] ]

get_current_state(t) == serialize_resource(Root, t)

----------------------------------------------------------------------------
(* Event labels and frame file names.  A label is the pair (kind, arg) of   *)
(* the string kind_arg; the file name is frame_<index:04d>_<label>.json.    *)

\* the operations whose callbacks __init__ registers
Operations ==
  {"pick_up_tips", "drop_tips", "aspirate", "dispense",
   "pick_up_tips96", "drop_tips96", "aspirate96", "dispense96"}

\* the operations and the resources the protocol coroutines fire events for
FiredOperations == {"aspirate"}
FiredResources == {"plate1"}

initial_state == [kind |-> "initial_state", arg |-> ""]
NoLabel == [kind |-> "none", arg |-> ""]

operation_label(op) == [kind |-> "operation", arg |-> op]
assign_label(r) == [kind |-> "assign", arg |-> r]
unassign_label(r) == [kind |-> "unassign", arg |-> r]
state_update_label(r) == [kind |-> "state_update", arg |-> r]

\* decimal digits of n, most significant first
RECURSIVE DecDigits(_)
DecDigits(n) == IF n < 10 THEN <<n>> ELSE DecDigits(n \div 10) \o <<n % 10>>

\* s padded on the left with zeros to at least w digits
ZeroPad(s, w) ==
  IF Len(s) >= w THEN s
  ELSE [i \in 1..w |-> IF i <= w - Len(s) THEN 0 ELSE s[i - (w - Len(s))]]

\* format(n, "04d"): at least PadWidth digits, more when n needs them
Format04d(n) == ZeroPad(DecDigits(n), PadWidth)

\* frame_path: the name of the frame file of index n and label l
FrameName(n, l) == [idx |-> n, label |-> l, ext |-> "json"]

\* Rank of a label among the labels, in the order of their strings followed
\* by ".json": the kinds differ in their first letter (a, i, o, s, u); within
\* a kind the args are ordered as strings ("aspirate.json" < "aspirate96.json").
KindRank(k) ==
  CASE k = "assign" -> 1 [] k = "initial_state" -> 2 [] k = "operation" -> 3
    [] k = "state_update" -> 4 [] k = "unassign" -> 5 [] OTHER -> 6

ArgRank(a) ==
  CASE a = "" -> 0
    [] a = "aspirate" -> 1 [] a = "aspirate96" -> 2 [] a = "dispense" -> 3
    [] a = "dispense96" -> 4 [] a = "drop_tips" -> 5 [] a = "drop_tips96" -> 6
    [] a = "pick_up_tips" -> 7 [] a = "pick_up_tips96" -> 8
    [] a = "plate1" -> 1 [] a = "tip_rack1" -> 2 [] OTHER -> 9

\* The characters of a frame file name after the common prefix "frame_", as
\* character codes: the digits ('0' is 48), '_' (95), and the label as one
\* symbol above every digit and '_' (labels start with a lower-case letter).
NameChars(f) ==
  LET digits == Format04d(f.idx)
  IN [i \in 1..Len(digits) |-> 48 + digits[i]]
       \o <<95, 100 + 10 * KindRank(f.label.kind) + ArgRank(f.label.arg)>>

\* a < b as strings: Array.prototype.sort() without a comparator
RECURSIVE LexLess(_, _)
LexLess(a, b) ==
  IF b = <<>> THEN FALSE
  ELSE IF a = <<>> THEN TRUE
  ELSE IF Head(a) # Head(b) THEN Head(a) < Head(b)
  ELSE LexLess(Tail(a), Tail(b))

\* entry e put at its place in the sorted sequence q of [name, chars] entries
RECURSIVE Insert(_, _)
Insert(e, q) ==
  IF q = <<>> THEN <<e>>
  ELSE IF LexLess(e.chars, Head(q).chars) THEN <<e>> \o q
  ELSE <<Head(q)>> \o Insert(e, Tail(q))

RECURSIVE SortEntries(_)
SortEntries(S) ==
  IF S = {} THEN <<>>
  ELSE LET x == CHOOSE y \in S : TRUE
       IN Insert([name |-> x, chars |-> NameChars(x)], SortEntries(S \ {x}))

\* .sort(): the names of S in ascending string order
SortNames(S) == LET q == SortEntries(S) IN [i \in 1..Len(q) |-> q[i].name]

\* File contents: a complete JSON snapshot, or what a failed json.dump left.
Complete(s) == [complete |-> TRUE, data |-> s]
Partial == [complete |-> FALSE, data |-> [name |-> ""]]

\* fs.readdirSync(framesDir).filter(f => f.endsWith('.json')).sort()
stateFiles(dir) == SortNames({f \in DOMAIN dir : f.ext = "json"})

\* stateFiles.forEach: JSON.parse throws on a file that is not complete JSON,
\* which ends the script; the frames added before that stay added.
RECURSIVE renderFrames(_, _)
renderFrames(dir, names) ==
  IF names = <<>> THEN [frames |-> <<>>, thrown |-> FALSE]
  ELSE IF ~dir[Head(names)].complete THEN [frames |-> <<>>, thrown |-> TRUE]
  ELSE LET rest == renderFrames(dir, Tail(names))
       IN [frames |-> <<Head(names)>> \o rest.frames, thrown |-> rest.thrown]

render_js(dir) == renderFrames(dir, stateFiles(dir))

----------------------------------------------------------------------------
(* State after NodeVisualizer.__init__ *)

\* A path name: absolute or relative, and its components.
Pathname(abs, parts) == [abs |-> abs, parts |-> parts]
NoPathname == Pathname(FALSE, <<>>)

\* Path(tempfile.mkdtemp()): a fresh absolute directory
TempDir == Pathname(TRUE, <<"tmp", "tmpa1b2c3">>)

\* The paths of a visualizer: its arguments output_dir and gif_path, the
\* working directory of the process and self.temp_dir; no file resolved yet.
PathsOf(output_dir, gif_path, cwd, temp_dir) ==
  [ output_dir |-> output_dir, gif_path |-> gif_path, cwd |-> cwd, temp_dir |-> temp_dir,
    frames_written |-> NoPathname, frames_read |-> NoPathname,
    gif_written |-> NoPathname, gif_checked |-> NoPathname ]

\* The run whose captures and rendering are followed is given absolute
\* paths: the renderer lists the directory the captures write to.
DefaultPaths ==
  PathsOf(Pathname(TRUE, <<"data", "frames">>), Pathname(TRUE, <<"data", "protocol.gif">>),
          Pathname(TRUE, <<"home", "lab", "project">>), TempDir)

NoErr == [type |-> "none", event |-> NoLabel, index |-> -1, stderr |-> ""]
\* no snapshot taken: the value of `state` outside a capture
NoSnapshot == [name |-> ""]
NoPath == FrameName(0, NoLabel)
NoCmp == [a |-> NoPath, b |-> NoPath, sorted |-> <<>>]
NoRender == [runs |-> 0, frames |-> <<>>, returncode |-> 0, stderr |-> "", artifact |-> FALSE]

\* output_dir.mkdir(parents=True, exist_ok=True) keeps what the directory
\* holds: nothing, or the files an earlier run left in it.
EmptyDir == <<>>
EarlierRun ==
  (FrameName(0, initial_state) :> Complete(get_current_state(UsedTree)))
  @@ (FrameName(1, operation_label("aspirate")) :> Complete(get_current_state(UsedTree)))
  @@ ([idx |-> 0, label |-> NoLabel, ext |-> "log"] :> Partial)

\* the locations of the resources as the deck of the protocol places them
DeckLayout == [n \in Nodes |-> Offset(n)]

Init ==
  /\ layout = DeckLayout
  /\ shots = <<>>
  /\ scene = NoSnapshot
  /\ drawn = <<>>
  /\ paths = DefaultPaths
  /\ frame_count = 0
  /\ files \in {EmptyDir, EarlierRun}
  /\ tree = InitialTree
  /\ callbacks = {"operation"}
  /\ pc = [p \in Procs |-> IF p = Main THEN "constructed" ELSE "idle"]
  /\ path = [p \in Procs |-> NoPath]
  /\ snap = [p \in Procs |-> NoSnapshot]
  /\ err = NoErr
  /\ running = NoProc
  /\ history = <<>>
  /\ cur = [p \in Procs |-> 0]
  /\ render = NoRender
  /\ base_stopped = FALSE
  /\ cmp = NoCmp

----------------------------------------------------------------------------
(* Scheduling *)

\* as capture_frame_awaits, had the write been awaited (an async file write)
capture_frame_awaits_write == {"cap_write"}

\* the positions inside _capture_frame at which the coroutine suspends: none,
\* its body has no await
capture_frame_awaits == {}

\* as stop_awaits, had the renderer been awaited (asyncio's subprocess)
stop_awaits_renderer == {"rendering"}

\* the positions inside stop() before super().stop() at which the coroutine
\* suspends: none, subprocess.run blocks the thread of the event loop until
\* the renderer has exited
stop_awaits == {}

\* positions at which a coroutine has given up the event loop
Suspended(at) ==
  at \in {"idle", "constructed", "ready", "stopped", "stop_raised", "setup_super"}
         \cup capture_frame_awaits \cup stop_awaits

InCapture(p) == pc[p] = "cap_write"

Turn(p) == running \in {NoProc, p}
Hold(p, at) == IF Suspended(at) THEN NoProc ELSE p

\* where the caller of a capture goes on after it
Return(p) == IF p = Main THEN "ready" ELSE "idle"

----------------------------------------------------------------------------
(* _capture_frame(event_name) *)

\* The exception that leaves _capture_frame when a statement of it raises:
\* that exception as it is; nothing in _capture_frame catches or wraps it,
\* so it names neither the event nor the frame index.
capture_error(type, event, index) ==
  [type |-> type, event |-> NoLabel, index |-> -1, stderr |-> ""]

\* An event fires on coroutine p and its callback awaits _capture_frame(label),
\* which runs up to the serialization:
\*   frame_path = self.output_dir / f"frame_{self.frame_count:04d}_{event_name}.json"
\*   state = self._get_current_state()
\* get_absolute_location or serialize_state of a resource may raise (ok = FALSE).
capture_frame(p, label, t, ok) ==
  /\ Turn(p)
  /\ Len(history) < MaxEvents
  /\ tree' = t
  /\ cur' = [cur EXCEPT ![p] = IF ok THEN Len(history) + 1 ELSE 0]
  /\ IF ok
     THEN /\ path' = [path EXCEPT ![p] = FrameName(frame_count, label)]
          /\ snap' = [snap EXCEPT ![p] = get_current_state(t)]
          /\ history' = Append(history,
                          [label |-> label, idx |-> frame_count, result |-> "pending"])
          /\ pc' = [pc EXCEPT ![p] = "cap_write"]
          /\ running' = Hold(p, "cap_write")
          /\ UNCHANGED err
     ELSE /\ err' = capture_error("SerializationError", label, frame_count)
          /\ history' = Append(history,
                          [label |-> label, idx |-> frame_count, result |-> "serialize_failed"])
          /\ pc' = [pc EXCEPT ![p] = Return(p)]
          /\ running' = Hold(p, Return(p))
          /\ UNCHANGED <<path, snap>>
  /\ UNCHANGED <<frame_count, files, callbacks, render, base_stopped, cmp, layout, shots, scene, drawn, paths>>

\* what open(frame_path, "w") and json.dump(state, f) leave in the directory:
\* the complete snapshot, or the truncated text of a dump that raised
written_file(dir, name, dumped, state) ==
  IF dumped THEN (name :> Complete(state)) @@ dir ELSE (name :> Partial) @@ dir

\* as next_frame_count, had the counter gone up by 2
next_frame_count_skip(n) == n + 2

\* the value of self.frame_count after self.frame_count += 1
next_frame_count(n) == n + 1

\* The rest of _capture_frame:
\*   with open(frame_path, "w") as f: json.dump(state, f, indent=2)
\*   self.frame_count += 1
\* json.dump may raise on a state that is not JSON-serializable (dumped = FALSE).
capture_frame_write(p, dumped) ==
  /\ pc[p] = "cap_write"
  /\ Turn(p)
  /\ files' = written_file(files, path[p], dumped, snap[p])
  /\ IF dumped
     THEN /\ frame_count' = next_frame_count(frame_count)
          /\ history' = [history EXCEPT ![cur[p]].result = "ok"]
          /\ UNCHANGED err
     ELSE /\ err' = capture_error("TypeError", path[p].label, path[p].idx)
          /\ history' = [history EXCEPT ![cur[p]].result = "dump_failed"]
          /\ UNCHANGED frame_count
  /\ pc' = [pc EXCEPT ![p] = Return(p)]
  /\ running' = Hold(p, Return(p))
  /\ path' = [path EXCEPT ![p] = NoPath]
  /\ snap' = [snap EXCEPT ![p] = NoSnapshot]
  /\ cur' = [cur EXCEPT ![p] = 0]
  /\ UNCHANGED <<tree, callbacks, render, base_stopped, cmp, layout, shots, scene, drawn, paths>>

----------------------------------------------------------------------------
(* The callbacks.  The protocol coroutines fire events until stop() is called. *)

Running == pc[Main] \in {"constructed", "setup_super", "ready", "rendering"}

operation_callback(p, op, ok) ==
  /\ pc[p] = "idle"
  /\ Running
  /\ "operation" \in callbacks
  /\ capture_frame(p, operation_label(op), TreeAfter("operation", tree), ok)

handle_resource_assigned_callback(p, r, ok) ==
  /\ pc[p] = "idle"
  /\ Running
  /\ "assign" \in callbacks
  /\ capture_frame(p, assign_label(r), TreeAfter("assign", tree), ok)

handle_resource_unassigned_callback(p, r, ok) ==
  /\ pc[p] = "idle"
  /\ Running
  /\ "unassign" \in callbacks
  /\ capture_frame(p, unassign_label(r), TreeAfter("unassign", tree), ok)

handle_state_update_callback(p, r, ok) ==
  /\ pc[p] = "idle"
  /\ Running
  /\ "state_update" \in callbacks
  /\ capture_frame(p, state_update_label(r), TreeAfter("state_update", tree), ok)

----------------------------------------------------------------------------
(* setup() *)

\* Visualizer.setup(): registers the structural and state callbacks on the
\* root resource, then suspends while the base visualizer starts
base_setup_callbacks == {"assign", "unassign", "state_update"}

setup ==
  /\ pc[Main] = "constructed"
  /\ Turn(Main)
  /\ callbacks' = callbacks \cup base_setup_callbacks
  /\ pc' = [pc EXCEPT ![Main] = "setup_super"]
  /\ running' = Hold(Main, "setup_super")
  /\ UNCHANGED <<frame_count, files, tree, path, snap, err, history, cur,
                 render, base_stopped, cmp, layout, shots, scene, drawn, paths>>

\* super().setup() has returned: await self._capture_frame("initial_state")
setup_initial_frame(ok) ==
  /\ pc[Main] = "setup_super"
  /\ capture_frame(Main, initial_state, tree, ok)

----------------------------------------------------------------------------
(* stop() *)

\* subprocess.run(cmd, cwd=self.temp_dir, check=True, capture_output=True,
\* text=True): one blocking run of render.js, which has done `r` over the
\* frame directory.  The script exits nonzero when it throws, or when its
\* environment fails it; the artifact's existence is what stop() looks at
\* after a zero exit.
run_renderer(r, env_fails, artifact) ==
  [ runs       |-> 1,
    frames     |-> r.frames,
    returncode |-> IF r.thrown \/ env_fails THEN 1 ELSE 0,
    stderr     |-> IF r.thrown THEN "SyntaxError: Unexpected end of JSON input"
                   ELSE IF env_fails THEN "Error: Cannot find module 'canvas'"
                   ELSE "",
    artifact   |-> artifact /\ ~(r.thrown \/ env_fails) ]

\* as stop_error, had the renderer run without capture_output=True
stop_error_uncaptured(result) ==
  [type |-> "CalledProcessError", event |-> NoLabel, index |-> -1, stderr |-> ""]

\* except subprocess.CalledProcessError as e: ... raise
stop_error(result) ==
  [type |-> "CalledProcessError", event |-> NoLabel, index |-> -1,
   stderr |-> result.stderr]

\* Visualizer.stop() of the base class: deregisters the callbacks its setup
\* registered
base_stop(cbs) == cbs \ base_setup_callbacks

\* as after_renderer, had stop() raised when the artifact is missing
after_renderer_artifact_required(result) ==
  IF result.returncode # 0 \/ ~result.artifact THEN "stop_raised" ELSE "stopped"

\* How stop() ends after the renderer has run: a nonzero exit raises
\* CalledProcessError; after a zero exit the artifact's existence is logged,
\* super().stop() is awaited and stop() returns.
after_renderer(result) ==
  IF result.returncode # 0 THEN "stop_raised" ELSE "stopped"

\* stop() up to the call of subprocess.run: the frames are listed and logged,
\* the command is built and the renderer is started
stop ==
  /\ pc[Main] = "ready"
  /\ Turn(Main)
  /\ pc' = [pc EXCEPT ![Main] = "rendering"]
  /\ running' = Hold(Main, "rendering")
  /\ UNCHANGED <<frame_count, files, tree, callbacks, path, snap, err, history, cur,
                 render, base_stopped, cmp, layout, shots, scene, drawn, paths>>

\* the renderer exits and subprocess.run returns or raises; stop() goes on to
\* its end
stop_renderer_exit ==
  /\ pc[Main] = "rendering"
  /\ Turn(Main)
  /\ LET r == render_js(files)
     IN \E env_fails \in BOOLEAN, artifact \in BOOLEAN :
          LET result == run_renderer(r, env_fails, artifact)
              raised == after_renderer(result) = "stop_raised"
          IN /\ render' = [result EXCEPT !.runs = render.runs + result.runs]
             /\ err' = IF raised THEN stop_error(result) ELSE err
             /\ base_stopped' = ~raised
             /\ callbacks' = IF raised THEN callbacks ELSE base_stop(callbacks)
             /\ pc' = [pc EXCEPT ![Main] = after_renderer(result)]
             /\ running' = Hold(Main, after_renderer(result))
  /\ UNCHANGED <<frame_count, files, tree, path, snap, history, cur, cmp, layout, shots, scene, drawn, paths>>

----------------------------------------------------------------------------
Next ==
  \/ \E p \in Tasks, op \in FiredOperations, ok \in BOOLEAN : operation_callback(p, op, ok)
  \/ \E p \in Tasks, r \in FiredResources, ok \in BOOLEAN :
       handle_resource_assigned_callback(p, r, ok)
  \/ \E p \in Tasks, r \in FiredResources, ok \in BOOLEAN :
       handle_resource_unassigned_callback(p, r, ok)
  \/ \E p \in Tasks, r \in FiredResources, ok \in BOOLEAN :
       handle_state_update_callback(p, r, ok)
  \/ setup
  \/ \E ok \in BOOLEAN : setup_initial_frame(ok)
  \/ \E p \in Procs, dumped \in BOOLEAN : capture_frame_write(p, dumped)
  \/ stop
  \/ stop_renderer_exit

Spec == Init /\ [][Next]_vars

----------------------------------------------------------------------------
(* The order of frame names, on its own: render.js lists a directory that   *)
(* holds two frames written by captures with the given indices and labels.  *)

IndexSamples == {0, 1, 9, 10, 99, 100, 999, 1000, 9998, 9999, 10000, 10001}
SampleNames ==
  {FrameName(n, l) : n \in IndexSamples, l \in {initial_state, operation_label("aspirate")}}

InitNames ==
  /\ layout = DeckLayout
  /\ shots = <<>>
  /\ scene = NoSnapshot
  /\ drawn = <<>>
  /\ paths = DefaultPaths
  /\ frame_count = 0
  /\ files = EmptyDir
  /\ tree = InitialTree
  /\ callbacks = {"operation"}
  /\ pc = [p \in Procs |-> IF p = Main THEN "constructed" ELSE "idle"]
  /\ path = [p \in Procs |-> NoPath]
  /\ snap = [p \in Procs |-> NoSnapshot]
  /\ err = NoErr
  /\ running = NoProc
  /\ history = <<>>
  /\ cur = [p \in Procs |-> 0]
  /\ render = NoRender
  /\ base_stopped = FALSE
  /\ cmp \in {c \in [a : SampleNames, b : SampleNames, sorted : {<<>>}] : c.a # c.b}

list_frames ==
  /\ cmp.sorted = <<>>
  /\ cmp' = [cmp EXCEPT !.sorted =
               stateFiles((cmp.a :> Complete(NoSnapshot)) @@ (cmp.b :> Complete(NoSnapshot)))]
  /\ UNCHANGED <<frame_count, files, tree, callbacks, pc, path, snap, err, running,
                 history, cur, render, base_stopped, layout, shots, scene, drawn, paths>>

NextNames == list_frames

SpecNames == InitNames /\ [][NextNames]_vars

----------------------------------------------------------------------------
(* The paths, on their own: where the captures write the frames and where  *)
(* the renderer, started with cwd=self.temp_dir, reads them; where the     *)
(* renderer writes the artifact and where stop() looks for it.             *)

OutputDirs ==
  { Pathname(FALSE, <<"visualization_frames">>), Pathname(FALSE, <<"out", "frames">>),
    Pathname(TRUE, <<"data", "frames">>), Pathname(TRUE, <<"tmp", "tmpa1b2c3">>) }
GifPaths ==
  { Pathname(FALSE, <<"protocol.gif">>), Pathname(FALSE, <<"out", "run.gif">>),
    Pathname(TRUE, <<"data", "protocol.gif">>), Pathname(TRUE, <<"tmp", "tmpa1b2c3", "protocol.gif">>) }
WorkingDirs ==
  { Pathname(TRUE, <<"home", "lab", "project">>), Pathname(TRUE, <<"home", "lab">>),
    Pathname(TRUE, <<>>) }
TempDirs == {TempDir, Pathname(TRUE, <<"var", "tmp", "tmpz9">>)}

\* the file a process whose working directory is cwd opens under the name p
resolve(cwd, p) == IF p.abs THEN p ELSE Pathname(TRUE, cwd.parts \o p.parts)

\* the working directory of the renderer: subprocess.run(cmd, cwd=self.temp_dir)
renderer_cwd(ps) == ps.temp_dir

InitPaths ==
  /\ layout = DeckLayout
  /\ shots = <<>>
  /\ scene = NoSnapshot
  /\ drawn = <<>>
  /\ paths \in {PathsOf(o, g, c, t) :
                  o \in OutputDirs, g \in GifPaths, c \in WorkingDirs, t \in TempDirs}
  /\ frame_count = 0
  /\ files = EmptyDir
  /\ tree = InitialTree
  /\ callbacks = {"operation"}
  /\ pc = [p \in Procs |-> IF p = Main THEN "constructed" ELSE "idle"]
  /\ path = [p \in Procs |-> NoPath]
  /\ snap = [p \in Procs |-> NoSnapshot]
  /\ err = NoErr
  /\ running = NoProc
  /\ history = <<>>
  /\ cur = [p \in Procs |-> 0]
  /\ render = NoRender
  /\ base_stopped = FALSE
  /\ cmp = NoCmp

\* _capture_frame: open(self.output_dir / f"frame_...json", "w"), in the
\* visualizer's process
capture_frame_open ==
  /\ paths.frames_written = NoPathname
  /\ paths' = [paths EXCEPT !.frames_written = resolve(paths.cwd, paths.output_dir)]
  /\ UNCHANGED <<frame_count, files, tree, callbacks, pc, path, snap, err, running,
                 history, cur, render, base_stopped, cmp, layout, shots, scene, drawn>>

\* stop(): node render.js str(self.gif_path) str(self.frame_delay)
\* str(self.output_dir) with cwd=self.temp_dir; render.js opens
\* process.argv[2] for the artifact and lists process.argv[4]; then
\* os.path.exists(self.gif_path) in the visualizer's process
stop_render_paths ==
  /\ paths.frames_written # NoPathname
  /\ paths.frames_read = NoPathname
  /\ paths' = [paths EXCEPT
                 !.gif_written = resolve(renderer_cwd(paths), paths.gif_path),
                 !.frames_read = resolve(renderer_cwd(paths), paths.output_dir),
                 !.gif_checked = resolve(paths.cwd, paths.gif_path)]
  /\ UNCHANGED <<frame_count, files, tree, callbacks, pc, path, snap, err, running,
                 history, cur, render, base_stopped, cmp, layout, shots, scene, drawn>>

NextPaths == capture_frame_open \/ stop_render_paths

SpecPaths == InitPaths /\ [][NextPaths]_vars

----------------------------------------------------------------------------
(* The serializer, on its own: _get_current_state() is called on a tree    *)
(* that does not change between the calls, for every layout of the tree.   *)

MaxShots == 2       \* calls of _get_current_state()

OffsetSamples ==
  {[x |-> 0, y |-> 0, z |-> 0], [x |-> 10, y |-> 5, z |-> 1], [x |-> 2, y |-> 3, z |-> 4]}
Layouts == [Nodes -> OffsetSamples]

InitSnapshot ==
  /\ layout \in Layouts
  /\ shots = <<>>
  /\ scene = NoSnapshot
  /\ drawn = <<>>
  /\ paths = DefaultPaths
  /\ frame_count = 0
  /\ files = EmptyDir
  /\ tree \in {InitialTree, UsedTree}
  /\ callbacks = {"operation"}
  /\ pc = [p \in Procs |-> IF p = Main THEN "constructed" ELSE "idle"]
  /\ path = [p \in Procs |-> NoPath]
  /\ snap = [p \in Procs |-> NoSnapshot]
  /\ err = NoErr
  /\ running = NoProc
  /\ history = <<>>
  /\ cur = [p \in Procs |-> 0]
  /\ render = NoRender
  /\ base_stopped = FALSE
  /\ cmp = NoCmp

\* state = self._get_current_state()
call_get_current_state ==
  /\ Len(shots) < MaxShots
  /\ shots' = Append(shots, get_current_state(tree))
  /\ UNCHANGED <<frame_count, files, tree, callbacks, pc, path, snap, err, running,
                 history, cur, render, base_stopped, cmp, layout, scene, drawn, paths>>

NextSnapshot == call_get_current_state

SpecSnapshot == InitSnapshot /\ [][NextSnapshot]_vars

----------------------------------------------------------------------------
(* render.js: renderFrame(state).  The canvas and the encoder are the log  *)
(* of the operations done on them, in order.  Lengths are kept in 1/Unit   *)
(* of a canvas unit, so that the scale 1.5, the halves of the well's       *)
(* centre and the factor 0.7 of its radius stay whole numbers; an angle    *)
(* is the fraction from/of (or to/of) of the full turn 2*pi, a fill ratio  *)
(* the fraction to/of.                                                     *)

Unit == 20
padding == 4             \* const padding = 4
DefaultMaxVolume == 1000 \* resource.state.max_volume || 1000

\* COLORS
DECK == "#5B6D8F"
TIP_RACK == "#7B8CAF"
TIP == "#2F3D5F"
TIP_SPOT_EMPTY == "#FFFFFF"
PLATE == "#6B7C9F"
WELL_EMPTY == "#FFFFFF"
TROUGH == "#9BA8C7"
Black == "#000000"

\* COLORS.COMPOUNDS[compound] || '#999999'
CompoundColour(compound) ==
  CASE compound = "Compound A" -> "#FF4444" [] compound = "Compound B" -> "#4444FF"
    [] compound = "Compound C" -> "#44FF44" [] compound = "Compound D" -> "#FFFF44"
    [] OTHER -> "#999999"

\* one call on ctx (or on the encoder) while resource r is drawn
DrawOp(op, r, x, y, w, h, colour, from, to, of) ==
  [op |-> op, name |-> r.name, x |-> x, y |-> y, w |-> w, h |-> h,
   colour |-> colour, from |-> from, to |-> to, of |-> of]

Rect(op, r, x, y, w, h, colour) == DrawOp(op, r, x, y, w, h, colour, 0, 0, 1)

\* data.reduce((sum, [_, volume]) => sum + volume, 0)
RECURSIVE reduce_volume(_)
reduce_volume(data) ==
  IF data = <<>> THEN 0 ELSE Head(data)[2] + reduce_volume(Tail(data))

\* the low-level part of a resource's state the renderer tests for:
\* resource.state && resource.state.liquids (an empty list counts)
has_liquids(resource) == resource.state.kind = "liquids"

\* as next_startAngle, had every slice started at angle 0
next_startAngle_zero(startAngle, sliceAngle) == 0

\* startAngle += sliceAngle
next_startAngle(startAngle, sliceAngle) == startAngle + sliceAngle

\* data.forEach(([compound, volume]) => ...): one filled and stroked slice per
\* entry; sliceAngle = (volume / total) * Math.PI * 2 is volume/total of the turn
RECURSIVE pieSlices(_, _, _, _, _, _, _)
pieSlices(r, x, y, radius, data, startAngle, total) ==
  IF data = <<>> THEN <<>>
  ELSE LET compound == Head(data)[1]
           sliceAngle == Head(data)[2]
       IN <<DrawOp("slice", r, x, y, radius, radius, CompoundColour(compound),
                   startAngle, startAngle + sliceAngle, total)>>
            \o pieSlices(r, x, y, radius, Tail(data),
                         next_startAngle(startAngle, sliceAngle), total)

\* as drawPieChart, without the test of total === 0
drawPieChart_unguarded(r, x, y, radius, data) ==
  LET total == reduce_volume(data)
  IN pieSlices(r, x, y, radius, data, 0, total)
       \o <<DrawOp("outline", r, x, y, radius, radius, Black, 0, 1, 1)>>

\* drawPieChart(ctx, x, y, radius, data, maxVolume)
drawPieChart(r, x, y, radius, data) ==
  LET total == reduce_volume(data)
  IN IF total = 0
     THEN <<DrawOp("circle", r, x, y, radius, radius, WELL_EMPTY, 0, 1, 1)>>
     ELSE pieSlices(r, x, y, radius, data, 0, total)
            \o <<DrawOp("outline", r, x, y, radius, radius, Black, 0, 1, 1)>>

\* Math.min
Math_min(a, b) == IF a <= b THEN a ELSE b

\* case 'Well': radius = Math.min(width, height) * 0.7, centre of the box
drawWell(r, x, y, width, height) ==
  LET radius == (Math_min(width, height) * 7) \div 10
      centerX == x + width \div 2
      centerY == y + height \div 2
  IN IF has_liquids(r)
     THEN drawPieChart(r, centerX, centerY, radius, r.state.liquids)
     ELSE <<DrawOp("circle", r, centerX, centerY, radius, radius, WELL_EMPTY, 0, 1, 1)>>

\* as fill_ratio, without Math.min
fill_ratio_unclamped(volume, maxVolume) == [to |-> volume, of |-> maxVolume]

\* ratio = Math.min(volume / maxVolume, 1.0)
fill_ratio(volume, maxVolume) ==
  IF volume >= maxVolume THEN [to |-> 1, of |-> 1] ELSE [to |-> volume, of |-> maxVolume]

\* the liquid of a trough: clip to the inset rectangle, fill, restore
troughLiquid(r, x, y, width, height) ==
  LET volume == reduce_volume(r.state.liquids)
      maxVolume == IF r.state.max_volume # 0 THEN r.state.max_volume ELSE DefaultMaxVolume
      ratio == fill_ratio(volume, maxVolume)
  IN IF ratio.to > 0
     THEN LET compound == r.state.liquids[1][1]
              \* Math.floor(height * ratio), in canvas units
              liquidHeight == Unit * ((height * ratio.to) \div (Unit * ratio.of))
              pad == padding * Unit
          IN << Rect("save_clip", r, x + pad, y + pad, width - 2 * pad, height - 2 * pad, Black),
                DrawOp("fillRect", r, x + pad, y + height - liquidHeight - pad,
                       width - 2 * pad, liquidHeight, CompoundColour(compound),
                       0, ratio.to, ratio.of),
                Rect("restore", r, x, y, width, height, Black) >>
     ELSE <<>>

\* as drawTrough, had the outline been drawn first
drawTrough_outline_first(r, x, y, width, height) ==
  <<Rect("strokeRect", r, x, y, width, height, Black),
    Rect("fillRect", r, x, y, width, height, TROUGH)>>
    \o (IF has_liquids(r) THEN troughLiquid(r, x, y, width, height) ELSE <<>>)

\* case 'Trough'
drawTrough(r, x, y, width, height) ==
  <<Rect("fillRect", r, x, y, width, height, TROUGH)>>
    \o (IF has_liquids(r) THEN troughLiquid(r, x, y, width, height) ELSE <<>>)
    \o <<Rect("strokeRect", r, x, y, width, height, Black)>>

\* drawTipSpot(ctx, x, y, width, height, hasTip)
drawTipSpot(r, x, y, width, height) ==
  LET hasTip == r.state.kind = "tip" /\ r.state.has_tip
  IN <<Rect("tipSpot", r, x, y, width, height, IF hasTip THEN TIP ELSE TIP_SPOT_EMPTY)>>
       \o (IF hasTip
           THEN <<Rect("tip", r, x + (width * 3) \div 20, y + height \div 20,
                       (width * 7) \div 10, (height * 9) \div 10, TIP)>>
           ELSE <<>>)

\* a filled and outlined rectangle: the deck, a tip rack, a plate
drawBox(r, x, y, width, height, colour) ==
  <<Rect("fillRect", r, x, y, width, height, colour),
    Rect("strokeRect", r, x, y, width, height, Black)>>

\* undefined: the parentScale of a resource nothing has set it on
Undefined == 0

\* as scale, had drawResource used the parentScale set on the resource
scale_inherited(resource, parentScale) ==
  IF parentScale # Undefined THEN parentScale
  ELSE IF resource.type \in {"Plate", "Well", "ResourceHolder"} THEN 2 * Unit
  ELSE (3 * Unit) \div 2

\* let scale = 1.5; if (resource.type === 'Plate' || ... ) scale = 2.0;
\* the parentScale set on the resource by its parent is not read
scale(resource, parentScale) ==
  IF resource.type \in {"Plate", "Well", "ResourceHolder"} THEN 2 * Unit
  ELSE (3 * Unit) \div 2

\* the condition under which drawResource sets child.parentScale = scale
sets_parentScale(resource, child) ==
  child.type = "Well" \/ (resource.type = "Plate" /\ child.type # "TipSpot")

\* switch(resource.type): what the resource itself puts on the canvas
drawOwn(resource, s) ==
  LET x == resource.location.x * s
      y == resource.location.y * s
      width == resource.size_x * s
      height == resource.size_y * s
  IN CASE resource.type = "STARLetDeck" -> drawBox(resource, x, y, width, height, DECK)
       [] resource.type = "TipRack" -> drawBox(resource, x, y, width, height, TIP_RACK)
       [] resource.type = "TipSpot" -> drawTipSpot(resource, x, y, width, height)
       [] resource.type = "Plate" -> drawBox(resource, x, y, width, height, PLATE)
       [] resource.type = "Well" -> drawWell(resource, x, y, width, height)
       [] resource.type = "Trough" -> drawTrough(resource, x, y, width, height)
       [] OTHER -> <<>>

RECURSIVE drawResource(_, _), drawChildren(_, _, _)

\* as drawResource, had the children been drawn before the resource
drawResource_children_first(resource, parentScale) ==
  LET s == scale(resource, parentScale)
  IN drawChildren(resource, resource.children, s) \o drawOwn(resource, s)

\* function drawResource(resource)
drawResource(resource, parentScale) ==
  LET s == scale(resource, parentScale)
  IN drawOwn(resource, s) \o drawChildren(resource, resource.children, s)

\* resource.children.forEach(child => { ...; drawResource(child); })
drawChildren(resource, children, s) ==
  IF Len(children) = 0 THEN <<>>
  ELSE LET child == children[1]
           parentScale == IF sets_parentScale(resource, child) THEN s ELSE Undefined
       IN drawResource(child, parentScale)
            \o drawChildren(resource, [i \in 1..(Len(children) - 1) |-> children[i + 1]], s)

\* what is not a resource's: the frame's own operations
Frame == [name |-> "frame"]

\* function renderFrame(state)
renderFrame(state) ==
  <<Rect("clearRect", Frame, 0, 0, 2000 * Unit, 1200 * Unit, "#ffffff")>>
    \o drawResource(state, Undefined)
    \o <<Rect("addFrame", Frame, 0, 0, 2000 * Unit, 1200 * Unit, "#ffffff")>>

----------------------------------------------------------------------------
(* The renderer, on its own: renderFrame is given one parsed frame file.   *)
(* The frames are trees of a root with two children, the first of which    *)
(* has a child of its own; the types of the resources, the liquids and the *)
(* max volume of the wells and troughs, and the tip vary.                  *)

Compositions ==
  { <<>>,
    << <<"Compound A", 0>> >>,
    << <<"Compound A", 0>>, <<"Compound B", 0>> >>,
    << <<"Compound A", 30>>, <<"Compound B", 70>> >>,
    << <<"Compound A", 250>> >>,
    << <<"Compound B", 1200>> >>,
    << <<"Compound C", 0>>, <<"Compound A", 250>> >>,
    << <<"Water", 100>>, <<"Compound A", 100>>, <<"Compound D", 100>> >> }

\* the max volume a well or trough states; 0: it states none
MaxVolumes == {0, 500, 1000}

\* the state of a well or trough: none, or its liquids and max volume
ContainerStates ==
  {[kind |-> "none", has_tip |-> FALSE, liquids |-> <<>>, max_volume |-> 0]}
    \cup {[kind |-> "liquids", has_tip |-> FALSE, liquids |-> c, max_volume |-> m] :
            c \in Compositions, m \in MaxVolumes}

RootTypes == {"STARLetDeck", "Plate"}
ChildTypes == {"Plate", "TipRack", "ResourceHolder", "Trough", "Well"}
GrandchildTypes == {"Well", "TipSpot", "Trough"}

StateOf(type, cs, tip) ==
  CASE type \in {"Well", "Trough"} -> cs
    [] type = "TipSpot" -> [kind |-> "tip", has_tip |-> tip, liquids |-> <<>>, max_volume |-> 0]
    [] OTHER -> [kind |-> "none", has_tip |-> FALSE, liquids |-> <<>>, max_volume |-> 0]

SceneNode(name, type, x, y, sx, sy, state, children) ==
  [ name |-> name, type |-> type, location |-> [x |-> x, y |-> y, z |-> 0],
    size_x |-> sx, size_y |-> sy, size_z |-> 2, state |-> state, children |-> children ]

SceneOf(t1, t2, t3, cs, tip) ==
  SceneNode("root", t1, 0, 0, 100, 60, StateOf(t1, cs, tip),
    << SceneNode("first", t2, 10, 6, 40, 30, StateOf(t2, cs, tip),
         << SceneNode("inner", t3, 12, 8, 6, 8, StateOf(t3, cs, tip), <<>>) >>),
       SceneNode("second", "Well", 60, 6, 20, 10, StateOf("Well", cs, tip), <<>>) >>)

Scenes ==
  {SceneOf(t1, t2, t3, cs, tip) :
     t1 \in RootTypes, t2 \in ChildTypes, t3 \in GrandchildTypes,
     cs \in ContainerStates, tip \in BOOLEAN}

InitRender ==
  /\ layout = DeckLayout
  /\ shots = <<>>
  /\ scene \in Scenes
  /\ drawn = <<>>
  /\ paths = DefaultPaths
  /\ frame_count = 0
  /\ files = EmptyDir
  /\ tree = InitialTree
  /\ callbacks = {"operation"}
  /\ pc = [p \in Procs |-> IF p = Main THEN "constructed" ELSE "idle"]
  /\ path = [p \in Procs |-> NoPath]
  /\ snap = [p \in Procs |-> NoSnapshot]
  /\ err = NoErr
  /\ running = NoProc
  /\ history = <<>>
  /\ cur = [p \in Procs |-> 0]
  /\ render = NoRender
  /\ base_stopped = FALSE
  /\ cmp = NoCmp

\* renderFrame(state) of stateFiles.forEach
render_frame ==
  /\ drawn = <<>>
  /\ drawn' = renderFrame(scene)
  /\ UNCHANGED <<frame_count, files, tree, callbacks, pc, path, snap, err, running,
                 history, cur, render, base_stopped, cmp, layout, shots, scene, paths>>

NextRender == render_frame

SpecRender == InitRender /\ [][NextRender]_vars

----------------------------------------------------------------------------
(* Properties *)

Events == DOMAIN history
Succeeded(i) == history[i].result = "ok"
Failed(i) == history[i].result \in {"serialize_failed", "dump_failed"}
\* the capture of event i created or truncated its frame file
Wrote(i) == history[i].result \in {"ok", "dump_failed"}
NameOf(i) == FrameName(history[i].idx, history[i].label)
WrittenNames == {NameOf(i) : i \in {j \in Events : Wrote(j)}}
JsonFiles == {f \in DOMAIN files : f.ext = "json"}
Returned == pc[Main] = "stopped"

\* C1: the indices in the names of the frame files written by the captures,
\* failed captures included, are exactly 0..N-1 for N files: one file per
\* index, no gaps, increasing in capture order.
C1_IndicesContiguous ==
  /\ {f.idx : f \in WrittenNames} = 0..(Cardinality(WrittenNames) - 1)
  /\ \A i, j \in Events :
       (i < j /\ Wrote(i) /\ Wrote(j) /\ NameOf(i) # NameOf(j))
         => history[i].idx < history[j].idx

\* C2: index 0 always goes to the initial_state frame of setup(), and the
\* initial_state frame never gets another index.
C2_IndexZeroIsInitialState ==
  \A i \in Events :
    Succeeded(i) => (history[i].idx = 0 <=> history[i].label = initial_state)

\* C3 as stated: captures never interleave, a frame fired earlier has the
\* smaller index, and no two captures ever read the same counter value.
C3_NoCounterValueReadTwice ==
  /\ Cardinality({p \in Procs : InCapture(p)}) <= 1
  /\ \A i, j \in Events :
       i < j => /\ history[i].result # "pending"
                /\ history[i].idx # history[j].idx
                /\ ((Succeeded(i) /\ Succeeded(j)) => history[i].idx < history[j].idx)

\* C3 as amended: captures never interleave (the capture of an event has
\* ended, by returning or raising, before the capture of the next event
\* starts); of two captures the later never reads a smaller counter value,
\* and it reads a larger one whenever the earlier capture succeeded: only a
\* capture that follows a failed one reads the value the failed one read.
C3_CapturesSerialized ==
  /\ Cardinality({p \in Procs : InCapture(p)}) <= 1
  /\ \A i, j \in Events :
       i < j => /\ history[i].result # "pending"
                /\ history[i].idx <= history[j].idx
                /\ (Succeeded(i) => history[i].idx < history[j].idx)

\* two events fired by different coroutines (setup's by the main coroutine,
\* an operation's by a protocol coroutine), both captured
C3_Witness ==
  /\ Len(history) >= 2
  /\ history[1].label = initial_state /\ Succeeded(1)
  /\ history[2].label.kind = "operation" /\ Succeeded(2)

\* C4: a recognized event whose capture succeeds produces exactly one new
\* frame file holding the snapshot of the tree, raises the frame count by 1,
\* and leaves the sequencer idle.
C4_EventProducesOneNewFrame ==
  [][\A p \in Tasks :
       (pc[p] = "cap_write" /\ history'[cur[p]].result = "ok")
         => /\ path[p] \notin DOMAIN files
            /\ Cardinality(DOMAIN files') = Cardinality(DOMAIN files) + 1
            /\ files'[path[p]] = Complete(get_current_state(tree))
            /\ frame_count' = frame_count + 1
            /\ \A q \in Procs : pc'[q] # "cap_write"]_vars

\* C5: a capture whose serialization fails raises an error that carries the
\* event name and the frame index of the failed capture.
C5_CaptureFailureNamesEvent ==
  (/\ Len(history) > 0
   /\ history[Len(history)].result = "serialize_failed"
   /\ err.type # "CalledProcessError")
    => /\ err.type # "none"
       /\ err.event = history[Len(history)].label
       /\ err.index = history[Len(history)].idx

\* C6: when the renderer exits nonzero, stop() raises the renderer's failure
\* (subprocess.CalledProcessError) with the text of the process's error
\* stream, after one run of the renderer.
C6_NonzeroExitRaises ==
  (render.runs > 0 /\ render.returncode # 0)
    => /\ pc[Main] = "stop_raised"
       /\ err.type = "CalledProcessError"
       /\ err.stderr = render.stderr
       /\ render.runs = 1

C6_Witness ==
  /\ pc[Main] = "stop_raised"
  /\ render.returncode # 0
  /\ render.stderr # ""

\* C7: stop() returns normally only when the renderer exited 0 and the
\* artifact exists (a missing artifact raises).
C7_ReturnsOnlyWithArtifact ==
  Returned => (render.returncode = 0 /\ render.artifact)

\* C8: the order in which render.js lists the frames of a directory (by
\* name) is the ascending order of their indices.
C8_NameOrderIsIndexOrder ==
  Len(cmp.sorted) = 2 => cmp.sorted[1].idx <= cmp.sorted[2].idx

\* C9: after setup() and k events, all captured, the directory holds the k+1
\* frame files of this run and stop() renders exactly these, in capture
\* order, whatever the directory held at construction.
C9_ArtifactHasRunsFrames ==
  (/\ Returned
   /\ Len(history) > 0
   /\ history[1].label = initial_state
   /\ \A i \in Events : Succeeded(i))
    => /\ JsonFiles = {NameOf(i) : i \in Events}
       /\ render.frames = [i \in Events |-> NameOf(i)]

\* C10: whatever failed, the frames captured so far are on disk and every
\* .json file of the directory is a complete snapshot.
C10_DirectoryStaysRenderable ==
  /\ \A i \in Events : Succeeded(i) => (NameOf(i) \in DOMAIN files /\ files[NameOf(i)].complete)
  /\ \A f \in JsonFiles : files[f].complete

\* C19: from the moment stop() starts the renderer to the moment the renderer
\* has exited, no capture runs and no frame file is created or changed: the
\* events of the protocol coroutines add no frame while the renderer works.
C19_RenderOnClosedSequence ==
  [][pc[Main] = "rendering"
       => /\ \A p \in Procs : ~InCapture(p)
          /\ \A p \in Procs : pc'[p] # "cap_write"
          /\ files' = files
          /\ frame_count' = frame_count
          /\ history' = history]_vars

\* the renderer is at work while a protocol coroutine still has events to
\* fire and the callbacks are registered
C19_Witness ==
  /\ pc[Main] = "rendering"
  /\ Len(history) < MaxEvents
  /\ callbacks = {"operation"} \cup base_setup_callbacks
  /\ \E p \in Tasks : pc[p] = "idle"

\* the location of resource n added to the vector v
Plus(v, d) == [x |-> v.x + d.x, y |-> v.y + d.y, z |-> v.z + d.z]

\* in the snapshot s of resource n, every child's recorded location is the
\* recorded location of its parent plus the child's own offset, all the way down
RECURSIVE LocationsAdd(_, _)
LocationsAdd(s, n) ==
  /\ Len(s.children) = Len(Children(n))
  /\ \A i \in 1..Len(s.children) :
       /\ s.children[i].location = Plus(s.location, layout[Children(n)[i]])
       /\ LocationsAdd(s.children[i], Children(n)[i])

\* C11: in every snapshot the location recorded for a resource is the
\* recorded location of its parent plus the resource's parent-relative
\* offset, down from the root, whose recorded location is its own: the sum of
\* the offsets on the path from the root.
C11_LocationsAreAbsolute ==
  \A i \in DOMAIN shots :
    /\ shots[i].location = layout[Root]
    /\ LocationsAdd(shots[i], Root)

\* a snapshot of a tree whose root, plate and well all have offsets that count
C11_Witness ==
  /\ Len(shots) >= 1
  /\ layout[1].x # 0 /\ layout[4].x # 0 /\ layout[5].x # 0
  /\ layout[4] # layout[5]

\* the names of the nodes of a snapshot, parent first, children in their order
RECURSIVE SnapshotNames(_), SnapshotNamesOf(_)
SnapshotNames(s) == <<s.name>> \o SnapshotNamesOf(s.children)
SnapshotNamesOf(cs) ==
  IF Len(cs) = 0 THEN <<>>
  ELSE SnapshotNames(cs[1]) \o SnapshotNamesOf([i \in 1..(Len(cs) - 1) |-> cs[i + 1]])

\* the names of the resources of the tree, parent first, children in their order
RECURSIVE TreeNames(_), TreeNamesOf(_)
TreeNames(n) == <<ResourceName(n)>> \o TreeNamesOf(Children(n))
TreeNamesOf(ns) ==
  IF ns = <<>> THEN <<>> ELSE TreeNames(Head(ns)) \o TreeNamesOf(Tail(ns))

RECURSIVE SceneNodes(_)
SceneNodes(r) == {r} \cup UNION {SceneNodes(r.children[i]) : i \in 1..Len(r.children)}

\* the parent/child pairs of a parsed frame
RECURSIVE SceneEdges(_)
SceneEdges(r) ==
  {[parent |-> r, child |-> r.children[i]] : i \in 1..Len(r.children)}
    \cup UNION {SceneEdges(r.children[i]) : i \in 1..Len(r.children)}

Rendered == drawn # <<>>
\* the operations done while the resource called name was drawn, in order
OpsOf(name) == SelectSeq(drawn, LAMBDA o : o.name = name)
OpsOfKind(name, op) == SelectSeq(drawn, LAMBDA o : o.name = name /\ o.op = op)

RECURSIVE TotalVolume(_)
TotalVolume(data) == IF data = <<>> THEN 0 ELSE Head(data)[2] + TotalVolume(Tail(data))

LiquidFills(name) ==
  LET ops == OpsOf(name)
  IN {i \in DOMAIN ops : i > 1 /\ ops[i].op = "fillRect" /\ ops[i - 1].op = "save_clip"}

\* C14: a trough with liquids of positive total volume, stating its max
\* volume, gets one liquid fill whose ratio is min(total/maxVolume, 1), never
\* above 1, whose height is floor(bodyHeight * ratio), never above the body
\* height, and whose colour is that of the first entry of the liquids.
C14_TroughFill ==
  Rendered =>
    \A r \in SceneNodes(scene) :
      (/\ r.type = "Trough" /\ has_liquids(r)
       /\ TotalVolume(r.state.liquids) > 0 /\ r.state.max_volume > 0) =>
        LET ops == OpsOf(r.name)
            body == ops[1]
            total == TotalVolume(r.state.liquids)
            maxVolume == r.state.max_volume
        IN /\ Cardinality(LiquidFills(r.name)) = 1
           /\ \A i \in LiquidFills(r.name) :
                /\ ops[i].to <= ops[i].of
                /\ IF total >= maxVolume THEN ops[i].to = ops[i].of
                   ELSE ops[i].to * maxVolume = total * ops[i].of
                /\ ops[i].h = Unit * ((body.h * ops[i].to) \div (Unit * ops[i].of))
                /\ ops[i].h <= body.h
                /\ ops[i].colour = CompoundColour(r.state.liquids[1][1])

\* a trough of max volume 1000 has been drawn with a liquid fill: holding
\* 1200 (filled to the top), or 0 of C and 250 of A (a quarter, in C's colour)
C14_Witness ==
  /\ Rendered
  /\ \E r \in SceneNodes(scene) :
       /\ r.type = "Trough" /\ r.state.max_volume = 1000
       /\ r.state.liquids \in { << <<"Compound B", 1200>> >>,
                                 << <<"Compound C", 0>>, <<"Compound A", 250>> >> }
       /\ LiquidFills(r.name) # {}

\* the scale of the type-to-scale table: 2.0 and 1.5
TypeScale(type) ==
  IF type \in {"Plate", "Well", "ResourceHolder"} THEN 2 * Unit ELSE (3 * Unit) \div 2

\* resource r was drawn with scale s: positioned at (absX*s, absY*s) with
\* size (sizeX*s, sizeY*s)
DrawnWithScale(r, s) == OpsOf(r.name) = drawOwn(r, s)

\* under r, drawn with the effective scale s, every child is drawn with s
\* if it is a Well or r is a Plate and the child no TipSpot, and with the
\* scale of its own type otherwise; and so on below the child
RECURSIVE InheritsScale(_, _)
InheritsScale(r, s) ==
  \A i \in 1..Len(r.children) :
    LET child == r.children[i]
        effective == IF child.type = "Well" \/ (r.type = "Plate" /\ child.type # "TipSpot")
                     THEN s ELSE TypeScale(child.type)
    IN DrawnWithScale(child, effective) /\ InheritsScale(child, effective)

\* C15: a child is drawn with its parent's effective scale if it is a Well,
\* or if the parent is a Plate and the child is not a TipSpot, and with the
\* scale of its own type in every other case.
C15_ScaleInheritance ==
  Rendered => InheritsScale(scene, TypeScale(scene.type))

SubtreeNames(r) == {n.name : n \in SceneNodes(r)}
\* the positions in the log of the operations of the resources called names
Positions(names) == {i \in DOMAIN drawn : drawn[i].name \in names}
AllBefore(A, B) == \A i \in A, j \in B : i < j

\* C17: within a frame every resource is drawn after its parent and before
\* its own children, the subtrees of siblings one after the other in child
\* order, every node once; the frame goes to the encoder once, after the
\* whole tree has been drawn.
C17_PreorderDraw ==
  Rendered =>
    /\ \A e \in SceneEdges(scene) :
         AllBefore(Positions({e.parent.name}), Positions(SubtreeNames(e.child)))
    /\ \A r \in SceneNodes(scene) : \A i, j \in 1..Len(r.children) :
         i < j => AllBefore(Positions(SubtreeNames(r.children[i])),
                            Positions(SubtreeNames(r.children[j])))
    /\ \A r \in SceneNodes(scene) : OpsOf(r.name) = drawOwn(r, TypeScale(r.type))
    /\ Positions({"frame"}) = {1, Len(drawn)}
    /\ drawn[1].op = "clearRect" /\ drawn[Len(drawn)].op = "addFrame"

\* a frame in which all four resources put something on the canvas
C17_Witness ==
  /\ Rendered
  /\ \A r \in SceneNodes(scene) : OpsOf(r.name) # <<>>
  /\ Cardinality(SceneNodes(scene)) = 4

\* C18: the last operation of a trough is the stroke of its body outline,
\* after the fill of the body in the base colour and after the liquid fill
\* if there is one; the liquid is filled under a clip to the body inset by
\* 4 units on each side, down to the bottom edge of that inset, and the clip
\* is removed before the outline is drawn.
C18_TroughOutlineLast ==
  Rendered =>
    \A r \in SceneNodes(scene) :
      r.type = "Trough" =>
        LET ops == OpsOf(r.name)
            body == ops[1]
            last == ops[Len(ops)]
            pad == 4 * Unit
        IN /\ body.op = "fillRect" /\ body.colour = TROUGH
           /\ body.x = r.location.x * TypeScale(r.type) /\ body.w = r.size_x * TypeScale(r.type)
           /\ last.op = "strokeRect"
           /\ <<last.x, last.y, last.w, last.h>> = <<body.x, body.y, body.w, body.h>>
           /\ Cardinality({i \in DOMAIN ops : ops[i].op = "strokeRect"}) = 1
           /\ \A i \in 2..(Len(ops) - 1) :
                ops[i].op = "fillRect" =>
                  /\ ops[i - 1].op = "save_clip"
                  /\ <<ops[i - 1].x, ops[i - 1].y, ops[i - 1].w, ops[i - 1].h>>
                       = <<body.x + pad, body.y + pad, body.w - 2 * pad, body.h - 2 * pad>>
                  /\ ops[i].x = ops[i - 1].x /\ ops[i].w = ops[i - 1].w
                  /\ ops[i].y + ops[i].h = ops[i - 1].y + ops[i - 1].h
                  /\ ops[i + 1].op = "restore"
                  /\ i + 1 < Len(ops)
           /\ \A i \in DOMAIN ops : ops[i].op = "save_clip" => ops[i + 1].op = "fillRect"

\* a frame with a trough drawn with a liquid fill
C18_Witness ==
  /\ Rendered
  /\ \E r \in SceneNodes(scene) : r.type = "Trough" /\ LiquidFills(r.name) # {}

\* C20: a well whose liquids have total volume zero (no entry, or entries of
\* volume 0) gets the empty outlined circle and nothing else: no slice, no
\* angle over a zero total; a trough whose liquids have total volume zero
\* gets its body and its outline and nothing in a compound's colour.
C20_ZeroVolume ==
  Rendered =>
    \A r \in SceneNodes(scene) :
      (has_liquids(r) /\ TotalVolume(r.state.liquids) = 0) =>
        LET ops == OpsOf(r.name)
        IN /\ \A i \in DOMAIN ops : ops[i].of # 0 /\ ops[i].op # "slice"
           /\ r.type = "Well" =>
                (Len(ops) = 1 /\ ops[1].op = "circle" /\ ops[1].colour = WELL_EMPTY)
           /\ r.type = "Trough" =>
                /\ Len(ops) = 2
                /\ ops[1].op = "fillRect" /\ ops[1].colour = TROUGH
                /\ ops[2].op = "strokeRect"

\* a frame with a well and a trough whose liquids are two entries of volume 0
C20_Witness ==
  /\ Rendered
  /\ \E r, q \in SceneNodes(scene) :
       /\ r.type = "Well" /\ q.type = "Trough"
       /\ r.state.liquids = << <<"Compound A", 0>>, <<"Compound B", 0>> >>
       /\ q.state.liquids = r.state.liquids

\* the events fired before event i whose capture succeeded
SucceededBefore(i) == {j \in Events : j < i /\ Succeeded(j)}

\* C21: frame_count is the number of captures that completed successfully;
\* a capture that fails in the serialization or in the write leaves it as it
\* was, so each capture uses the number of the captures that succeeded before
\* it as its index: the capture after a failed one uses the failed one's
\* index, and no index is skipped.
C21_CountsSuccessfulCaptures ==
  /\ frame_count = Cardinality({i \in Events : Succeeded(i)})
  /\ \A i \in Events : history[i].idx = Cardinality(SucceededBefore(i))

\* a capture failed in the serialization, the next failed in the write, and
\* the one after them succeeded with the index of the two
C21_Witness ==
  /\ Len(history) >= 3
  /\ history[1].result = "serialize_failed"
  /\ history[2].result = "dump_failed"
  /\ Succeeded(3) /\ history[3].idx = history[1].idx
  /\ frame_count = 1

\* C22: whatever output_dir and gif_path are, relative or absolute, the
\* directory the renderer reads the frames from is the directory the
\* captures wrote them to, and the path stop() checks for the artifact is the
\* path the renderer wrote it at.
C22_RendererSeesSamePaths ==
  paths.frames_read # NoPathname =>
    /\ paths.frames_read = paths.frames_written
    /\ paths.gif_checked = paths.gif_written

\* C23: stop() reaches the base visualizer's stop exactly when the renderer
\* exited with status 0, with or without the artifact; after a nonzero exit
\* the error has left stop() before the base stop, the base visualizer is
\* still running and all callbacks are still registered.
C23_BaseStopOnZeroExit ==
  /\ render.runs = 0 => ~base_stopped
  /\ render.runs > 0 =>
       /\ base_stopped <=> render.returncode = 0
       /\ render.returncode = 0 => Returned
       /\ render.returncode # 0 =>
            /\ pc[Main] = "stop_raised"
            /\ callbacks = {"operation"} \cup base_setup_callbacks

\* the renderer exited with status 0 without leaving the artifact, and the
\* base visualizer has been stopped
C23_Witness ==
  /\ Returned
  /\ render.returncode = 0 /\ ~render.artifact
  /\ base_stopped

====
